---------------------------- MODULE Spec2Model ----------------------------
(***************************************************************************)
(* Residual-load scenario engine (engine.py), its forecast store client    *)
(* (metdesk_db.py) and the reforecast scheduler (scheduler.py).            *)
(*                                                                         *)
(* A pandas DataFrame is a record                                          *)
(*     [hasTs, rows, cols, cell]                                           *)
(* hasTs : whether the frame carries the utc_datetime key column,          *)
(* rows  : the set of utc_datetime values (one row per timestamp),         *)
(* cols  : the set of value column names (strings such as "wind_ens_01"),  *)
(* cell  : a function on a subset of rows \X cols; a (row, column) pair    *)
(*         outside its domain is NaN.                                      *)
(* Values are integers.                                                    *)
(***************************************************************************)
EXTENDS Integers, Sequences, FiniteSets, TLC

\* ------------------------------------------------------------------ bounds
MaxT == 2
NMembers == 2
MaxIssue == 2
MaxCalls == 2
MaxLoops == 2
MaxRuns == 2

T == 1..MaxT
Issues == 1..MaxIssue
\* Python's None, for a location and for an issue (issues are positive)
None == "None"
NoIssue == 0

\* ------------------------------------------------------------------ config.py
COUNTRY == "FR"

AVAILABLE_MODELS ==
    [eceps  |-> [label |-> "ECMWF ENS (eceps)", n_members |-> NMembers],
     gfsens |-> [label |-> "GFS Ensemble (gfsens)", n_members |-> NMembers - 1]]

Models == DOMAIN AVAILABLE_MODELS

\* ------------------------------------------------------------------ frames
\* pd.DataFrame()
EmptyDF == [hasTs |-> FALSE, rows |-> {}, cols |-> {}, cell |-> << >>]

\* DataFrame.empty: some axis has length 0
IsEmpty(df) == df.rows = {} \/ (~df.hasTs /\ df.cols = {})

IsNaN(df, t, c) == <<t, c>> \notin DOMAIN df.cell

\* the value used by an arithmetic operation called with fill_value=0
FillZero(df, t, c) == IF IsNaN(df, t, c) THEN 0 ELSE df.cell[<<t, c>>]

\* DataFrame.rename(columns={c: prefix + c for c in df.columns if c != "utc_datetime"})
PrefixCols(df, prefix) ==
    [hasTs |-> df.hasTs,
     rows  |-> df.rows,
     cols  |-> {prefix \o c : c \in df.cols},
     cell  |-> [p \in {<<q[1], prefix \o q[2]>> : q \in DOMAIN df.cell} |->
                   LET q == CHOOSE q \in DOMAIN df.cell : <<q[1], prefix \o q[2]>> = p
                   IN  df.cell[q]]]

FillNa0_Noop(df) == df

\* DataFrame.fillna(0)
FillNa0(df) ==
    [df EXCEPT !.cell = [p \in df.rows \X df.cols |->
                            IF p \in DOMAIN df.cell THEN df.cell[p] ELSE 0]]

\* left.merge(right, on="utc_datetime", how="outer"), disjoint value columns
MergeOuter(left, right) ==
    [hasTs |-> TRUE,
     rows  |-> left.rows \cup right.rows,
     cols  |-> left.cols \cup right.cols,
     cell  |-> [p \in DOMAIN left.cell \cup DOMAIN right.cell |->
                   IF p \in DOMAIN left.cell THEN left.cell[p] ELSE right.cell[p]]]

MergeInner_Outer(left, right) == MergeOuter(left, right)

\* left.merge(right, on="utc_datetime", how="inner"), disjoint value columns
MergeInner(left, right) ==
    LET rs == left.rows \cap right.rows
    IN  [hasTs |-> TRUE,
         rows  |-> rs,
         cols  |-> left.cols \cup right.cols,
         cell  |-> [p \in {q \in DOMAIN left.cell \cup DOMAIN right.cell : q[1] \in rs} |->
                       IF p \in DOMAIN left.cell THEN left.cell[p] ELSE right.cell[p]]]

\* ------------------------------------------------------------------ the stores
\* silver.metdesk_forecasts: metdesk[<<location, element>>] is the set of issues
\* that have rows for that location and element (for every model); an issue's
\* rows cover the valid times from the issue onwards and every numeric member
\* of the model.  silver.eq_consumption: eq[country] is the set of timestamps
\* with a consumption value.  All stored timestamps lie inside the queries'
\* "2 days back" window and stay below their LIMIT.
VARIABLES metdesk, eq

\* special: the percentile and special member labels that every stored issue
\* has rows for, besides the numeric members.  store_faulty: whether a query
\* may raise (connection lost, SQL error).  reply: the last call of a client
\* method, its arguments, whether it returned or raised, and what it returned.
\* long_rows, wide: a query result as read_sql returns it and its pivot.
VARIABLES special, store_faulty, reply, long_rows, wide

clientVars == <<special, store_faulty, reply, long_rows, wide>>

METDESK_PERCENTILE_MEMBERS == {"0%", "10%", "25%", "40%", "60%", "75%", "90%", "100%"}
METDESK_SPECIAL_MEMBERS == {"control", "mean", "median"}

Locations == {"FR", "DE"}
Elements == {"wind", "solar"}

\* str.upper() / str.lower() on the country codes in use
Upper(c) == CASE c = "fr" -> "FR" [] c = "de" -> "DE" [] OTHER -> c
Lower(c) == CASE c = "FR" -> "fr" [] c = "DE" -> "de" [] OTHER -> c

\* [str(i) for i in range(1, n_members + 1)]
NumericMembers(model) == {ToString(i) : i \in 1..AVAILABLE_MODELS[model].n_members}

\* int(col) of a member label, 0 standing for ValueError
IntOf(col) ==
    IF \E i \in 1..NMembers : ToString(i) = col
    THEN CHOOSE i \in 1..NMembers : ToString(i) = col
    ELSE 0

\* f"{i:02d}"
Pad2(i) == IF i < 10 THEN "0" \o ToString(i) ELSE ToString(i)

ValidTimes(issue) == {t \in T : t >= issue}

StoredValue(location, element, issue, member, t) ==
    issue + IntOf(member) + t + (IF element = "solar" THEN 1 ELSE 0)
          + (IF location = "DE" THEN 2 ELSE 0)

StoredConsumption(country, t) == 20 + t + (IF country = "DE" THEN 5 ELSE 0)

\* SELECT MAX(issue) ... WHERE location, model, element; None when no row matches
LatestIssueOf(location, model, element) ==
    IF <<location, element>> \in DOMAIN metdesk /\ metdesk[<<location, element>>] # {}
    THEN CHOOSE i \in metdesk[<<location, element>>] :
             \A j \in metdesk[<<location, element>>] : j <= i
    ELSE NoIssue

\* def _get_latest_issue(self, model, element, location=None)
GetLatestIssue(model, element, location) ==
    LatestIssueOf(IF location = None THEN COUNTRY ELSE location, model, element)

\* SELECT utc_datetime, member, value ... WHERE location, model, element, issue,
\* member = ANY(:members): the matching rows, as a set
SelectMembers(location, model, element, issue, members) ==
    IF <<location, element>> \in DOMAIN metdesk /\ issue \in metdesk[<<location, element>>]
    THEN {[utc_datetime |-> t, member |-> m,
           value |-> StoredValue(location, element, issue, m, t)] :
              t \in ValidTimes(issue), m \in members \cap (NumericMembers(model) \cup special)}
    ELSE {}

\* the member labels in the order of ORDER BY member (text order)
MemberOrder ==
    <<"0%", "1", "10%", "100%", "2", "25%", "3", "4", "40%", "60%", "75%", "90%",
      "control", "mean", "median">>

MemberRank(m) == CHOOSE k \in DOMAIN MemberOrder : MemberOrder[k] = m

RowBefore(a, b) ==
    \/ a.utc_datetime < b.utc_datetime
    \/ a.utc_datetime = b.utc_datetime /\ MemberRank(a.member) < MemberRank(b.member)

\* ORDER BY utc_datetime, member: the rows of a duplicate-free result in order
RECURSIVE OrderBy(_)
OrderBy(S) ==
    IF S = {} THEN << >>
    ELSE LET r == CHOOSE r \in S : \A o \in S \ {r} : RowBefore(r, o)
         IN  <<r>> \o OrderBy(S \ {r})

PivotFirst_Last(df) ==
    LET keys == {<<df[k].utc_datetime, df[k].member>> : k \in DOMAIN df}
        first(p) == CHOOSE k \in DOMAIN df :
                        /\ <<df[k].utc_datetime, df[k].member>> = p
                        /\ \A j \in (k + 1)..Len(df) : <<df[j].utc_datetime, df[j].member>> # p
    IN  [hasTs |-> TRUE,
         rows  |-> {df[k].utc_datetime : k \in DOMAIN df},
         cols  |-> {df[k].member : k \in DOMAIN df},
         cell  |-> [p \in keys |-> df[first(p)].value]]

\* df.pivot_table(index="utc_datetime", columns="member", values="value",
\*                aggfunc="first").reset_index(), df a sequence of long rows
PivotFirst(df) ==
    LET keys == {<<df[k].utc_datetime, df[k].member>> : k \in DOMAIN df}
        first(p) == CHOOSE k \in DOMAIN df :
                        /\ <<df[k].utc_datetime, df[k].member>> = p
                        /\ \A j \in 1..(k - 1) : <<df[j].utc_datetime, df[j].member>> # p
    IN  [hasTs |-> TRUE,
         rows  |-> {df[k].utc_datetime : k \in DOMAIN df},
         cols  |-> {df[k].member : k \in DOMAIN df},
         cell  |-> [p \in keys |-> df[first(p)].value]]

\* rename_map[col] = f"ens_{int(col):02d}", or f"ens_{col}" on ValueError
EnsName(col) == IF IntOf(col) # 0 THEN "ens_" \o Pad2(IntOf(col)) ELSE "ens_" \o col

RenameMembers(pivot) ==
    [hasTs |-> pivot.hasTs,
     rows  |-> pivot.rows,
     cols  |-> {EnsName(c) : c \in pivot.cols},
     cell  |-> [p \in {<<q[1], EnsName(q[2])>> : q \in DOMAIN pivot.cell} |->
                   LET q == CHOOSE q \in DOMAIN pivot.cell : <<q[1], EnsName(q[2])>> = p
                   IN  pivot.cell[q]]]

\* def get_ensemble_forecasts(self, model, element, issue=None, location=None)
GetEnsembleForecasts(model, element, issue, location) ==
    LET loc  == IF location = None THEN COUNTRY ELSE location
        iss  == IF issue = NoIssue THEN GetLatestIssue(model, element, None) ELSE issue
        df   == OrderBy(SelectMembers(loc, model, element, iss, NumericMembers(model)))
    IN  IF iss = NoIssue THEN EmptyDF
        ELSE IF df = << >> THEN EmptyDF
        ELSE RenameMembers(PivotFirst(df))

\* the total_ren_ens_XX columns added by the loop over range(1, n_members + 1)
TotalRenCols(df, model) ==
    {i \in 1..AVAILABLE_MODELS[model].n_members :
        /\ ("wind_ens_" \o Pad2(i)) \in df.cols
        /\ ("solar_ens_" \o Pad2(i)) \in df.cols}

\* df[f"total_ren_ens_{i:02d}"] = df[w_col] + df[s_col]  (NaN if either is NaN)
AddTotalRen(df, model) ==
    LET is == TotalRenCols(df, model)
        w(i) == "wind_ens_" \o Pad2(i)
        s(i) == "solar_ens_" \o Pad2(i)
        tot(i) == "total_ren_ens_" \o Pad2(i)
        newCells == {<<t, i>> \in df.rows \X is :
                        <<t, w(i)>> \in DOMAIN df.cell /\ <<t, s(i)>> \in DOMAIN df.cell}
    IN  [hasTs |-> df.hasTs,
         rows  |-> df.rows,
         cols  |-> df.cols \cup {tot(i) : i \in is},
         cell  |-> [p \in DOMAIN df.cell \cup {<<q[1], tot(q[2])>> : q \in newCells} |->
                       IF p \in DOMAIN df.cell THEN df.cell[p]
                       ELSE LET q == CHOOSE q \in newCells : <<q[1], tot(q[2])>> = p
                            IN  df.cell[<<q[1], w(q[2])>>] + df.cell[<<q[1], s(q[2])>>]]]

\* the tail of get_renewable_ensembles, from the two fetched frames
CombineWindSolar(wind, solar, model) ==
    IF IsEmpty(wind) /\ IsEmpty(solar) THEN EmptyDF
    ELSE IF IsEmpty(wind) THEN PrefixCols(solar, "solar_")
    ELSE IF IsEmpty(solar) THEN PrefixCols(wind, "wind_")
    ELSE AddTotalRen(FillNa0(MergeOuter(PrefixCols(wind, "wind_"),
                                        PrefixCols(solar, "solar_"))), model)

\* def get_renewable_ensembles(self, model, issue=None, location=None)
GetRenewableEnsembles(model, issue, location) ==
    CombineWindSolar(GetEnsembleForecasts(model, "wind", issue, location),
                     GetEnsembleForecasts(model, "solar", issue, location),
                     model)

\* def get_eq_consumption(self, issue=None, n_latest_days=14, location=None):
\* WHERE LOWER(country) = :location; an empty result keeps the two columns
GetEqConsumption(issue, location) ==
    LET loc   == IF location = None THEN "fr" ELSE location
        match == {c \in DOMAIN eq : Lower(c) = loc}
        ts    == UNION {eq[c] : c \in match}
    IN  [hasTs |-> TRUE,
         rows  |-> ts,
         cols  |-> {"consumption_mw"},
         cell  |-> [p \in ts \X {"consumption_mw"} |->
                       StoredConsumption(CHOOSE c \in match : p[1] \in eq[c], p[1])]]

\* ------------------------------------------------------------------ engine.py
AddFill0_Overwrite(ren_agg, df_idx) ==
    [hasTs |-> TRUE,
     rows  |-> ren_agg.rows \cup df_idx.rows,
     cols  |-> ren_agg.cols \cup df_idx.cols,
     cell  |-> [p \in DOMAIN ren_agg.cell \cup DOMAIN df_idx.cell |->
                   IF p \in DOMAIN df_idx.cell THEN df_idx.cell[p] ELSE ren_agg.cell[p]]]

\* ren_agg.add(df_idx, fill_value=0): union of rows and of columns; a cell
\* missing on one side counts 0, a cell missing on both sides stays NaN
AddFill0(ren_agg, df_idx) ==
    [hasTs |-> TRUE,
     rows  |-> ren_agg.rows \cup df_idx.rows,
     cols  |-> ren_agg.cols \cup df_idx.cols,
     cell  |-> [p \in DOMAIN ren_agg.cell \cup DOMAIN df_idx.cell |->
                   FillZero(ren_agg, p[1], p[2]) + FillZero(df_idx, p[1], p[2])]]

\* the loop "for df in ren_list" of update: the first frame is copied, every
\* further frame is added
RECURSIVE AggregateRen(_)
AggregateRen(ren_list) ==
    IF Len(ren_list) = 1 THEN ren_list[1]
    ELSE AddFill0(AggregateRen(SubSeq(ren_list, 1, Len(ren_list) - 1)),
                  ren_list[Len(ren_list)])

RECURSIVE SumOver(_, _, _)
SumOver(cons_list, k, t) ==
    IF k = 0 THEN 0
    ELSE SumOver(cons_list, k - 1, t)
         + FillZero(cons_list[k], t, "consumption_mw")

\* pd.concat(cons_list).groupby("utc_datetime")["consumption_mw"].sum()
\*   .sort_values("utc_datetime")
SumConsumption(cons_list) ==
    LET ts == UNION {cons_list[k].rows : k \in DOMAIN cons_list}
    IN  [hasTs |-> TRUE,
         rows  |-> ts,
         cols  |-> {"consumption_mw"},
         cell  |-> [p \in ts \X {"consumption_mw"} |->
                       SumOver(cons_list, Len(cons_list), p[1])]]

\* Statistics are fractions of integers; a statistic column holds its value
\* times StatScale, which every member count in use and 100 divide.  The
\* ens_std column holds the square of that scaled value.
StatScale == 100 * 3

\* range(0, 101, 5)
Percentiles == {5 * k : k \in 0..20}

RECURSIVE SortValues(_, _)
\* the values row[i], i in S, in ascending order (np.sort, ties kept)
SortValues(row, S) ==
    IF S = {} THEN << >>
    ELSE LET i == CHOOSE i \in S : \A j \in S : row[i] <= row[j]
         IN  <<row[i]>> \o SortValues(row, S \ {i})

RECURSIVE SumSeq(_)
SumSeq(v) == IF v = << >> THEN 0 ELSE v[1] + SumSeq(Tail(v))

RECURSIVE SumSquares(_)
SumSquares(v) == IF v = << >> THEN 0 ELSE v[1] * v[1] + SumSquares(Tail(v))

NanPercentile_SwapsWeights(v, p) ==
    LET n    == Len(v)
        pos  == p * (n - 1)
        lo   == (pos \div 100) + 1
        frac == pos % 100
        hi   == IF lo < n THEN lo + 1 ELSE lo
    IN  (StatScale \div 100) * (100 * v[hi] - frac * (v[hi] - v[lo]))

\* np.nanpercentile(values, p) of the sorted non-NaN values v, linear
\* interpolation between the order statistics around rank p/100 * (n - 1)
NanPercentile(v, p) ==
    LET n    == Len(v)
        pos  == p * (n - 1)
        lo   == (pos \div 100) + 1
        frac == pos % 100
        hi   == IF lo < n THEN lo + 1 ELSE lo
    IN  (StatScale \div 100) * (100 * v[lo] + frac * (v[hi] - v[lo]))

NanMean_NotDivided(v) == StatScale * SumSeq(v)

NanMean(v) == (StatScale * SumSeq(v)) \div Len(v)

NanStdSquared(v) ==
    (StatScale * StatScale * (Len(v) * SumSquares(v) - SumSeq(v) * SumSeq(v)))
        \div (Len(v) * Len(v))

NanMin(v) == StatScale * v[1]

NanMax(v) == StatScale * v[Len(v)]

MatchedMembers_WindCounts(merged, model) ==
    {i \in 1..AVAILABLE_MODELS[model].n_members :
        \/ ("total_ren_ens_" \o Pad2(i)) \in merged.cols
        \/ ("wind_ens_" \o Pad2(i)) \in merged.cols}

\* the member indices i of range(1, n_members + 1) with ren_col in merged.columns
MatchedMembers(merged, model) ==
    {i \in 1..AVAILABLE_MODELS[model].n_members :
        ("total_ren_ens_" \o Pad2(i)) \in merged.cols}

\* the value of a statistic column for the sorted non-NaN values of a row
StatValue(c, v) ==
    CASE c = "ens_mean" -> NanMean(v)
      [] c = "ens_std"  -> NanStdSquared(v)
      [] c = "ens_min"  -> NanMin(v)
      [] c = "ens_max"  -> NanMax(v)
      [] OTHER -> NanPercentile(v, CHOOSE p \in Percentiles : c = "ens_P" \o ToString(p))

StatCols == {"ens_mean", "ens_std", "ens_min", "ens_max"}
                \cup {"ens_P" \o ToString(p) : p \in Percentiles}

ResidualLoad_Added(consumption_mw, total_ren) == consumption_mw + total_ren

\* merged["consumption_mw"] - merged[ren_col], cell by cell
ResidualLoad(consumption_mw, total_ren) == consumption_mw - total_ren

\* def _compute_residual_scenarios(self, consumption, ren_ens, model)
ComputeResidualScenarios(consumption, ren_ens, model) ==
    LET merged == MergeInner(consumption, ren_ens)
        is     == MatchedMembers(merged, model)
        tot(i) == "total_ren_ens_" \o Pad2(i)
        res(i) == "residual_ens_" \o Pad2(i)
        known  == {<<t, i>> \in merged.rows \X is :
                      /\ <<t, "consumption_mw">> \in DOMAIN merged.cell
                      /\ <<t, tot(i)>> \in DOMAIN merged.cell}
        val    == [q \in known |->
                      ResidualLoad(merged.cell[<<q[1], "consumption_mw">>],
                                   merged.cell[<<q[1], tot(q[2])>>])]
        row(t) == [i \in {i \in is : <<t, i>> \in known} |-> val[<<t, i>>]]
        sorted == [t \in merged.rows |-> SortValues(row(t), DOMAIN row(t))]
        stats  == IF is = {} THEN {} ELSE StatCols
        cells  == {<<q[1], res(q[2])>> : q \in known}
                     \cup {<<t, c>> \in merged.rows \X stats : sorted[t] # << >>}
    IN  IF IsEmpty(consumption) \/ IsEmpty(ren_ens) \/ IsEmpty(merged) THEN EmptyDF
        ELSE [hasTs |-> TRUE,
              rows  |-> merged.rows,
              cols  |-> {res(i) : i \in is} \cup stats,
              cell  |-> [p \in cells |->
                            IF p[2] \in stats THEN StatValue(p[2], sorted[p[1]])
                            ELSE LET q == CHOOSE q \in known : <<q[1], res(q[2])>> = p
                                 IN  val[q]]]

\* df[["utc_datetime", col]].rename(columns={col: name})
SelectAs(df, col, name) ==
    [hasTs |-> TRUE,
     rows  |-> df.rows,
     cols  |-> {name},
     cell  |-> [p \in {<<q[1], name>> : q \in {q \in DOMAIN df.cell : q[2] = col}} |->
                   df.cell[<<p[1], col>>]]]

DeltaPct_NoGuard(delta, old_mean) == <<100 * delta, old_mean>>

\* (comparison["delta"] / (comparison["ens_mean_old"] + 0.1)) * 100, as the
\* fraction <<numerator, denominator>> = <<1000 * delta, 10 * old_mean + 1>>
DeltaPct(delta, old_mean) == <<1000 * delta, 10 * old_mean + 1>>

\* the body of compute_forecast_delta after the two fetches
ForecastDelta(old_df, new_df) ==
    LET comparison == MergeInner(SelectAs(old_df, "ens_mean", "old_mean"),
                                 SelectAs(new_df, "ens_mean", "new_mean"))
        both == {t \in comparison.rows :
                    /\ <<t, "old_mean">> \in DOMAIN comparison.cell
                    /\ <<t, "new_mean">> \in DOMAIN comparison.cell}
        delta(t) == comparison.cell[<<t, "new_mean">>] - comparison.cell[<<t, "old_mean">>]
    IN  IF IsEmpty(old_df) \/ IsEmpty(new_df) THEN EmptyDF
        ELSE IF IsEmpty(comparison) THEN EmptyDF
        ELSE [hasTs |-> TRUE,
              rows  |-> comparison.rows,
              cols  |-> {"old_mean", "new_mean", "delta", "delta_pct"},
              cell  |-> [p \in DOMAIN comparison.cell \cup (both \X {"delta", "delta_pct"}) |->
                            CASE p[2] = "delta" -> delta(p[1])
                              [] p[2] = "delta_pct" ->
                                   DeltaPct(delta(p[1]), comparison.cell[<<p[1], "old_mean">>])
                              [] OTHER -> comparison.cell[p]]]

\* result[name] = 0.0
WithZeroCol(df, name) ==
    [hasTs |-> df.hasTs,
     rows  |-> df.rows,
     cols  |-> df.cols \cup {name},
     cell  |-> [p \in DOMAIN df.cell \cup (df.rows \X {name}) |->
                   IF p[2] = name THEN 0 ELSE df.cell[p]]]

ResidualDelta_NoFlip(w, s) == w + s

\* -(result["wind_delta"] + result["solar_delta"]), cell by cell
ResidualDelta(w, s) == 0 - (w + s)

\* the body of compute_residual_load_delta after the two component deltas;
\* residual_delta_pct = (residual_delta / 100.0) * 100
ResidualLoadDelta(wind, solar) ==
    LET w == SelectAs(wind, "delta", "wind_delta")
        s == SelectAs(solar, "delta", "solar_delta")
        merged == IF ~IsEmpty(wind) /\ ~IsEmpty(solar) THEN MergeOuter(w, s)
                  ELSE IF ~IsEmpty(wind) THEN WithZeroCol(w, "solar_delta")
                  ELSE WithZeroCol(s, "wind_delta")
        filled == FillNa0(merged)
        both   == {t \in filled.rows : /\ <<t, "wind_delta">> \in DOMAIN filled.cell
                                       /\ <<t, "solar_delta">> \in DOMAIN filled.cell}
        residual(t) == ResidualDelta(filled.cell[<<t, "wind_delta">>],
                                     filled.cell[<<t, "solar_delta">>])
    IN  IF IsEmpty(wind) /\ IsEmpty(solar) THEN EmptyDF
        ELSE IF IsEmpty(merged) THEN EmptyDF
        ELSE [hasTs |-> TRUE,
              rows  |-> filled.rows,
              cols  |-> filled.cols \cup {"residual_delta", "residual_delta_pct"},
              cell  |-> [p \in DOMAIN filled.cell
                               \cup (both \X {"residual_delta", "residual_delta_pct"}) |->
                            IF p[2] \in {"residual_delta", "residual_delta_pct"}
                            THEN residual(p[1])
                            ELSE filled.cell[p]]]

\* ------------------------------------------------------------------ state
\* ResidualLoadEngine: scenarios, last_update, current_model (self.* of
\* __init__).  One update call per caller: pc is the caller's place in update,
\* args its arguments, ren_list .. residual_scenarios the locals of update,
\* returned what the call gave back (outcome tells a return from a raise).
\* now is the wall clock (datetime.utcnow()), disk the files under DATA_DIR,
\* disk_faulty whether DATA_DIR rejects writes (to_csv raises).
\* phases and entry are history variables: the phases of the call in progress
\* and the engine's bundle when the call began.
VARIABLES scenarios, last_update, current_model,
          pc, args, ren_list, ren_ens, cons_list, consumption, residual_scenarios,
          returned, outcome, now, disk, disk_faulty, running, phases, entry

\* compute_residual_load_delta: the frames fetched for the old and the new
\* issue of each element, the locals wind_delta, solar_delta and result, and
\* the place in the function
VARIABLES old_df, new_df, wind_delta, solar_delta, result, delta_pc

deltaVars == <<old_df, new_df, wind_delta, solar_delta, result, delta_pc>>

\* scheduler.py: the loop threads start() has created and where each is in
\* _loop, the jobs registered with the schedule module, the dashboard's
\* st.session_state._scheduler_running, self.last_run (0: None, else the
\* ordinal of the last run that succeeded) and, per caller of _run_update,
\* how many of its runs have failed
VARIABLES loops, jobs, toggled, last_run, failed_runs

schedVars == <<loops, jobs, toggled, last_run, failed_runs>>

vars == <<metdesk, eq, scenarios, last_update, current_model, pc, args, ren_list,
          ren_ens, cons_list, consumption, residual_scenarios, returned, outcome, now,
          disk, disk_faulty, running, phases, entry, deltaVars, clientVars, schedVars>>

\* callers of update: the dashboard's Refresh button and the scheduler's loop thread
Threads == {"manual", "timer"}

\* self.scenarios = {}
EmptyBundle == << >>

NoTime == 0

\* update(model="eceps", issue=None, countries=None)
DefaultArgs == [model |-> "eceps", issue |-> NoIssue, countries |-> << >>]

\* the selections the dashboard passes to update
IssueChoices == {NoIssue, MaxIssue}
CountryLists == {<< >>, <<"fr">>, <<"de">>, <<"de", "fr">>}

\* if countries is None or len(countries) == 0: countries = [COUNTRY]
Countries(t) == IF args[t].countries = << >> THEN <<COUNTRY>> ELSE args[t].countries

NonEmpty_KeepsAll(frames) == frames

\* [x for x in frames if not x.empty], in list order
RECURSIVE NonEmpty(_)
NonEmpty(frames) ==
    IF frames = << >> THEN << >>
    ELSE (IF IsEmpty(frames[1]) THEN << >> ELSE <<frames[1]>>) \o NonEmpty(Tail(frames))

\* the phase sequence s after a step that belongs to phase ph
Enter(s, ph) == IF s # << >> /\ s[Len(s)] = ph THEN s ELSE Append(s, ph)

\* a step of phase ph that continues at label
Goto(t, label, ph) ==
    /\ pc' = [pc EXCEPT ![t] = label]
    /\ phases' = [phases EXCEPT ![t] = Enter(@, ph)]

\* return {}
Abort(t, ph) ==
    /\ pc' = [pc EXCEPT ![t] = "idle"]
    /\ phases' = [phases EXCEPT ![t] = Append(Enter(@, ph), "idle(aborted)")]
    /\ returned' = [returned EXCEPT ![t] = EmptyBundle]
    /\ outcome' = [outcome EXCEPT ![t] = "returned"]

\* engine.py 64-73: entry of update
Call(t, a) ==
    /\ pc[t] = "idle"
    /\ now < MaxCalls
    /\ now' = now + 1
    /\ args' = [args EXCEPT ![t] = a]
    /\ current_model' = a.model
    /\ pc' = [pc EXCEPT ![t] = "fetch_renewables"]
    /\ phases' = [phases EXCEPT ![t] = <<"idle">>]
    /\ entry' = [entry EXCEPT ![t] = scenarios]
    /\ outcome' = [outcome EXCEPT ![t] = "running"]
    /\ ren_list' = [ren_list EXCEPT ![t] = << >>]
    /\ cons_list' = [cons_list EXCEPT ![t] = << >>]
    /\ ren_ens' = [ren_ens EXCEPT ![t] = EmptyDF]
    /\ consumption' = [consumption EXCEPT ![t] = EmptyDF]
    /\ residual_scenarios' = [residual_scenarios EXCEPT ![t] = EmptyDF]
    /\ UNCHANGED <<schedVars, clientVars, deltaVars, disk_faulty, metdesk, eq, scenarios, last_update, returned, disk, running>>

\* dashboard.py 110-118: the Refresh button
Refresh ==
    \E m \in Models, i \in IssueChoices, cs \in CountryLists :
        Call("manual", [model |-> m, issue |-> i, countries |-> cs])

\* scheduler.py 29-35 and 46-49: a pending job runs update_callback()
RunUpdate ==
    /\ running
    /\ Call("timer", DefaultArgs)

\* engine.py 76-84
FetchRenewables(t) ==
    /\ pc[t] = "fetch_renewables"
    /\ LET cs == Countries(t)
           fetched == [k \in DOMAIN cs |->
                          GetRenewableEnsembles(args[t].model, args[t].issue, Upper(cs[k]))]
           list == NonEmpty(fetched)
       IN  /\ ren_list' = [ren_list EXCEPT ![t] = list]
           /\ IF list = << >>
              THEN Abort(t, "fetching-renewables")
              ELSE Goto(t, "aggregate_renewables", "fetching-renewables")
                   /\ UNCHANGED <<returned, outcome>>
    /\ UNCHANGED <<schedVars, clientVars, deltaVars, disk_faulty, metdesk, eq, scenarios, last_update, current_model, args, ren_ens,
                   cons_list, consumption, residual_scenarios, now, disk, running, entry>>

\* engine.py 86-94
AggregateRenewables(t) ==
    /\ pc[t] = "aggregate_renewables"
    /\ ren_ens' = [ren_ens EXCEPT ![t] = AggregateRen(ren_list[t])]
    /\ Goto(t, "fetch_consumption", "fetching-renewables")
    /\ UNCHANGED <<schedVars, clientVars, deltaVars, disk_faulty, metdesk, eq, scenarios, last_update, current_model, args, ren_list,
                   cons_list, consumption, residual_scenarios, returned, outcome, now,
                   disk, running, entry>>

\* engine.py 101-109
FetchConsumption(t) ==
    /\ pc[t] = "fetch_consumption"
    /\ LET cs == Countries(t)
           fetched == [k \in DOMAIN cs |-> GetEqConsumption(args[t].issue, Lower(cs[k]))]
           list == NonEmpty(fetched)
       IN  /\ cons_list' = [cons_list EXCEPT ![t] = list]
           /\ IF list = << >>
              THEN Abort(t, "fetching-consumption")
              ELSE Goto(t, "sum_consumption", "fetching-consumption")
                   /\ UNCHANGED <<returned, outcome>>
    /\ UNCHANGED <<schedVars, clientVars, deltaVars, disk_faulty, metdesk, eq, scenarios, last_update, current_model, args, ren_list,
                   ren_ens, consumption, residual_scenarios, now, disk, running, entry>>

\* engine.py 112-119
SumConsumptionStep(t) ==
    /\ pc[t] = "sum_consumption"
    /\ LET c == SumConsumption(cons_list[t])
       IN  /\ consumption' = [consumption EXCEPT ![t] = c]
           /\ IF IsEmpty(c)
              THEN Abort(t, "fetching-consumption")
              ELSE Goto(t, "compute_residual", "fetching-consumption")
                   /\ UNCHANGED <<returned, outcome>>
    /\ UNCHANGED <<schedVars, clientVars, deltaVars, disk_faulty, metdesk, eq, scenarios, last_update, current_model, args, ren_list,
                   ren_ens, cons_list, residual_scenarios, now, disk, running, entry>>

\* engine.py 125: _compute_residual_scenarios, residuals and their statistics
ComputeResidual(t) ==
    /\ pc[t] = "compute_residual"
    /\ residual_scenarios' = [residual_scenarios EXCEPT ![t] =
           ComputeResidualScenarios(consumption[t], ren_ens[t], args[t].model)]
    /\ pc' = [pc EXCEPT ![t] = "store_results"]
    /\ phases' = [phases EXCEPT ![t] = @ \o <<"computing-residual", "computing-statistics">>]
    /\ UNCHANGED <<schedVars, clientVars, deltaVars, disk_faulty, metdesk, eq, scenarios, last_update, current_model, args, ren_list,
                   ren_ens, cons_list, consumption, returned, outcome, now, disk,
                   running, entry>>

Bundle_SharedModel(t, actual_issue) ==
    [residual_scenarios |-> residual_scenarios[t],
     consumption        |-> consumption[t],
     renewables_ens     |-> ren_ens[t],
     metadata           |-> [model       |-> current_model,
                             model_label |-> AVAILABLE_MODELS[current_model].label,
                             issue       |-> actual_issue,
                             updated_at  |-> now,
                             n_members   |-> AVAILABLE_MODELS[current_model].n_members,
                             countries   |-> Countries(t)]]

\* the dict built at engine.py 137-149
Bundle(t, actual_issue) ==
    [residual_scenarios |-> residual_scenarios[t],
     consumption        |-> consumption[t],
     renewables_ens     |-> ren_ens[t],
     metadata           |-> [model       |-> args[t].model,
                             model_label |-> AVAILABLE_MODELS[args[t].model].label,
                             issue       |-> actual_issue,
                             updated_at  |-> now,
                             n_members   |-> AVAILABLE_MODELS[args[t].model].n_members,
                             countries   |-> Countries(t)]]

StoreResults_SkipsPersist(t) ==
    /\ pc[t] = "store_results"
    /\ LET first_loc == Upper(Countries(t)[1])
           actual_issue == IF args[t].issue = NoIssue
                           THEN GetLatestIssue(args[t].model, "wind", first_loc)
                           ELSE args[t].issue
       IN  scenarios' = Bundle(t, actual_issue)
    /\ Goto(t, "return", "replacing-bundle")
    /\ UNCHANGED <<schedVars, clientVars, deltaVars, disk_faulty, metdesk, eq, last_update, current_model, args, ren_list, ren_ens,
                   cons_list, consumption, residual_scenarios, returned, outcome, now,
                   disk, running, entry>>

\* engine.py 131-149: the issue for the metadata, then self.scenarios = {...}
StoreResults(t) ==
    /\ pc[t] = "store_results"
    /\ LET first_loc == Upper(Countries(t)[1])
           actual_issue == IF args[t].issue = NoIssue
                           THEN GetLatestIssue(args[t].model, "wind", first_loc)
                           ELSE args[t].issue
       IN  scenarios' = Bundle(t, actual_issue)
    /\ Goto(t, "save_to_disk", "replacing-bundle")
    /\ UNCHANGED <<schedVars, clientVars, deltaVars, disk_faulty, metdesk, eq, last_update, current_model, args, ren_list, ren_ens,
                   cons_list, consumption, residual_scenarios, returned, outcome, now,
                   disk, running, entry>>

\* for name, data in self.scenarios.items(): the dict's insertion order
TableOrder == <<"residual_scenarios", "consumption", "renewables_ens">>

\* the tables of bundle b that _save_to_disk writes: isinstance(data, pd.DataFrame)
\* and not data.empty
Saved(b) == {k \in DOMAIN TableOrder : TableOrder[k] \in DOMAIN b /\ ~IsEmpty(b[TableOrder[k]])}

\* def _save_to_disk(self, model), with data.to_csv raising at the table of
\* index failAt (0: no write fails): the files written before it are kept.
\* Files are named by model, table name and the minute of the call to utcnow()
SaveToDisk(model, b, failAt) ==
    LET written == {k \in Saved(b) : failAt = 0 \/ k < failAt}
        files   == {<<model, TableOrder[k], now>> : k \in written}
    IN  [f \in DOMAIN disk \cup files |->
            IF f \in files THEN b[f[2]] ELSE disk[f]]

\* engine.py 150-153: self.last_update = utcnow(); self._save_to_disk(model)
Persist(t) ==
    /\ pc[t] = "save_to_disk"
    /\ last_update' = now
    /\ \E failAt \in {0} \cup (IF disk_faulty THEN Saved(scenarios) ELSE {}) :
          /\ disk' = SaveToDisk(args[t].model, scenarios, failAt)
          /\ IF failAt = 0
             THEN /\ Goto(t, "return", "persisting")
                  /\ UNCHANGED <<returned, outcome>>
             ELSE \* the exception leaves update; both callers catch it
                  /\ pc' = [pc EXCEPT ![t] = "idle"]
                  /\ phases' = [phases EXCEPT ![t] = Append(Enter(@, "persisting"), "idle(raised)")]
                  /\ returned' = [returned EXCEPT ![t] = EmptyBundle]
                  /\ outcome' = [outcome EXCEPT ![t] = "raised"]
    /\ UNCHANGED <<schedVars, clientVars, deltaVars, disk_faulty, metdesk, eq, scenarios, current_model, args, ren_list, ren_ens,
                   cons_list, consumption, residual_scenarios, now, running, entry>>

\* engine.py 154: return self.scenarios
Return(t) ==
    /\ pc[t] = "return"
    /\ returned' = [returned EXCEPT ![t] = scenarios]
    /\ outcome' = [outcome EXCEPT ![t] = "returned"]
    /\ pc' = [pc EXCEPT ![t] = "idle"]
    /\ phases' = [phases EXCEPT ![t] = Append(@, "idle(updated)")]
    /\ UNCHANGED <<schedVars, clientVars, deltaVars, disk_faulty, metdesk, eq, scenarios, last_update, current_model, args, ren_list,
                   ren_ens, cons_list, consumption, residual_scenarios, now, disk,
                   running, entry>>

\* scheduler.py 37-44 and 51-54, from the dashboard's auto-refresh toggle
Start ==
    /\ ~running
    /\ running' = TRUE
    /\ UNCHANGED <<schedVars, clientVars, deltaVars, disk_faulty, metdesk, eq, scenarios, last_update, current_model, pc, args,
                   ren_list, ren_ens, cons_list, consumption, residual_scenarios,
                   returned, outcome, now, disk, phases, entry>>

Stop ==
    /\ running
    /\ running' = FALSE
    /\ UNCHANGED <<schedVars, clientVars, deltaVars, disk_faulty, metdesk, eq, scenarios, last_update, current_model, pc, args,
                   ren_list, ren_ens, cons_list, consumption, residual_scenarios,
                   returned, outcome, now, disk, phases, entry>>

\* ------------------------------------------------------------------ initial states
\* ResidualLoadEngine.__init__ and ReforecastScheduler.__init__, no call begun
EngineInit ==
    /\ scenarios = EmptyBundle
    /\ last_update = NoTime
    /\ current_model = None
    /\ pc = [t \in Threads |-> "idle"]
    /\ args = [t \in Threads |-> DefaultArgs]
    /\ ren_list = [t \in Threads |-> << >>]
    /\ cons_list = [t \in Threads |-> << >>]
    /\ ren_ens = [t \in Threads |-> EmptyDF]
    /\ consumption = [t \in Threads |-> EmptyDF]
    /\ residual_scenarios = [t \in Threads |-> EmptyDF]
    /\ returned = [t \in Threads |-> EmptyBundle]
    /\ outcome = [t \in Threads |-> "none"]
    /\ phases = [t \in Threads |-> << >>]
    /\ entry = [t \in Threads |-> EmptyBundle]
    /\ now = 0
    /\ disk = << >>
    /\ running = FALSE

\* no client call observed; a store with numeric members only that answers
\* every query
NoReply == [op |-> "none", outcome |-> "none"]

ClientIdle ==
    /\ special = {}
    /\ store_faulty = FALSE
    /\ reply = NoReply
    /\ long_rows = << >>
    /\ wide = EmptyDF

\* the threads start() may create
LoopIds == 1..MaxLoops

\* the callers of _run_update: a loop thread, or 0 for trigger_manual_update
Runners == {0} \cup LoopIds

\* ReforecastScheduler.__init__, the toggle off, no job registered
SchedIdle ==
    /\ loops = [l \in LoopIds |-> "unborn"]
    /\ jobs = 0
    /\ toggled = FALSE
    /\ last_run = 0
    /\ failed_runs = [r \in Runners |-> 0]

DeltaIdle ==
    /\ old_df = [e \in Elements |-> EmptyDF]
    /\ new_df = [e \in Elements |-> EmptyDF]
    /\ wind_delta = EmptyDF
    /\ solar_delta = EmptyDF
    /\ result = EmptyDF
    /\ delta_pc = "idle"

\* the store contents considered: per location and element no issue, the
\* first issue only, or every issue (the other location: none or the last);
\* per country no consumption, the first timestamp only, or every timestamp
StoreInit ==
    /\ \E fw, fs \in {{}, {1}, Issues}, dw, ds \in {{}, {MaxIssue}} :
          metdesk = [le \in Locations \X Elements |->
                        CASE le = <<"FR", "wind">>  -> fw
                          [] le = <<"FR", "solar">> -> fs
                          [] le = <<"DE", "wind">>  -> dw
                          [] le = <<"DE", "solar">> -> ds]
    /\ \E fc \in {{}, {1}, T}, dc \in {{}, T} :
          eq = [c \in Locations |-> IF c = "FR" THEN fc ELSE dc]

\* DATA_DIR takes every write
DiskSound == disk_faulty = FALSE

Init == StoreInit /\ EngineInit /\ DiskSound /\ DeltaIdle /\ ClientIdle /\ SchedIdle

\* the steps of one update call by caller t
UpdateStep(t) ==
    \/ FetchRenewables(t)
    \/ AggregateRenewables(t)
    \/ FetchConsumption(t)
    \/ SumConsumptionStep(t)
    \/ ComputeResidual(t)
    \/ StoreResults(t)
    \/ Persist(t)
    \/ Return(t)

\* the engine driven by the dashboard's Refresh button alone
Next == Refresh \/ UpdateStep("manual")

Spec == Init /\ [][Next]_vars

\* ------------------------------------------------------------------ the update of the two triggers
\* Refresh button and scheduler thread on one engine; a store with FR rows
\* for wind and, or not, for solar
TriggersInit ==
    /\ \E fs \in {{}, Issues} :
          metdesk = [le \in Locations \X Elements |->
                        CASE le = <<"FR", "wind">>  -> Issues
                          [] le = <<"FR", "solar">> -> fs
                          [] OTHER -> {}]
    /\ \E fc \in {{}, T} : eq = [c \in Locations |-> IF c = "FR" THEN fc ELSE {}]
    /\ EngineInit
    /\ DiskSound
    /\ DeltaIdle
    /\ ClientIdle
    /\ SchedIdle

NextTriggers ==
    \/ Refresh
    \/ RunUpdate
    \/ Start
    \/ Stop
    \/ \E t \in Threads : UpdateStep(t)

SpecTriggers == TriggersInit /\ [][NextTriggers]_vars

\* ------------------------------------------------------------------ overlapping update calls
\* the Refresh button and a started scheduler on one engine; a store with FR
\* wind and solar rows for every issue and FR consumption at every timestamp
\* or at none
OverlapInit ==
    /\ metdesk = [le \in Locations \X Elements |-> IF le[1] = "FR" THEN Issues ELSE {}]
    /\ \E fc \in {{}, T} : eq = [c \in Locations |-> IF c = "FR" THEN fc ELSE {}]
    /\ EngineInit
    /\ DiskSound
    /\ DeltaIdle
    /\ ClientIdle
    /\ SchedIdle

NextOverlap ==
    \/ Refresh
    \/ Start
    \/ RunUpdate
    \/ \E t \in Threads : UpdateStep(t)

SpecOverlap == OverlapInit /\ [][NextOverlap]_vars

\* ------------------------------------------------------------------ the update on a disk that may fail
\* the Refresh button alone; FR wind and FR solar with every issue or with
\* none, DE wind with the last issue or with none, FR consumption at every
\* timestamp or at none; DATA_DIR takes every write, or to_csv may raise at
\* any table
DiskInit ==
    /\ \E fw, fs \in {{}, Issues}, dw \in {{}, {MaxIssue}} :
          metdesk = [le \in Locations \X Elements |->
                        CASE le = <<"FR", "wind">>  -> fw
                          [] le = <<"FR", "solar">> -> fs
                          [] le = <<"DE", "wind">>  -> dw
                          [] OTHER -> {}]
    /\ \E fc \in {{}, T} : eq = [c \in Locations |-> IF c = "FR" THEN fc ELSE {}]
    /\ EngineInit
    /\ disk_faulty \in BOOLEAN
    /\ DeltaIdle
    /\ ClientIdle
    /\ SchedIdle

SpecDisk == DiskInit /\ [][Next]_vars

\* ------------------------------------------------------------------ _compute_residual_scenarios alone
NoStore ==
    /\ metdesk = [le \in Locations \X Elements |-> {}]
    /\ eq = [c \in Locations |-> {}]

\* a frame with the given rows and columns whose cell (t, c) is val[<<t, c>>]
\* where val is defined
Frame(rows, cols, val) ==
    [hasTs |-> TRUE, rows |-> rows, cols |-> cols,
     cell |-> [p \in (rows \X cols) \cap DOMAIN val |-> val[p]]]

\* consumption tables: any set of timestamps; 100, 110, .. or a constant 5
ConsumptionFrames ==
    {EmptyDF} \cup
    {Frame(rows, {"consumption_mw"},
           [p \in T \X {"consumption_mw"} |->
               IF ramp THEN 100 + 10 * (p[1] - 1) ELSE 5]) :
        rows \in SUBSET T, ramp \in BOOLEAN}

\* renewables tables: any set of timestamps, total columns for any set of
\* members (wind columns for all); member i constant at 10 * i, or t + 2 * i,
\* or t + 2 * i with NaN where t = i
RenPatterns == {"flat", "mixed", "holes"}

RenCell(pattern, t, i) ==
    CASE pattern = "flat" -> 10 * i
      [] OTHER -> t + 2 * i

RenewableFrames ==
    {EmptyDF} \cup
    {Frame(rows,
           {"wind_ens_" \o Pad2(i) : i \in 1..NMembers}
               \cup {"total_ren_ens_" \o Pad2(i) : i \in ms},
           [p \in {<<q[1], "total_ren_ens_" \o Pad2(q[2])>> :
                       q \in {q \in T \X ms : pattern # "holes" \/ q[1] # q[2]}}
                  \cup {<<t, "wind_ens_" \o Pad2(i)>> : t \in T, i \in 1..NMembers} |->
               LET i == CHOOSE i \in 1..NMembers :
                            p[2] \in {"total_ren_ens_" \o Pad2(i), "wind_ens_" \o Pad2(i)}
               IN  RenCell(pattern, p[1], i)]) :
        rows \in SUBSET T, ms \in SUBSET (1..NMembers), pattern \in RenPatterns}

InitResidual ==
    /\ NoStore
    /\ scenarios = EmptyBundle
    /\ last_update = NoTime
    /\ \E m \in Models, c \in ConsumptionFrames, r \in RenewableFrames :
          /\ current_model = m
          /\ args = [t \in Threads |-> [DefaultArgs EXCEPT !.model = m]]
          /\ consumption = [t \in Threads |-> IF t = "manual" THEN c ELSE EmptyDF]
          /\ ren_ens = [t \in Threads |-> IF t = "manual" THEN r ELSE EmptyDF]
    /\ pc = [t \in Threads |-> IF t = "manual" THEN "compute_residual" ELSE "idle"]
    /\ ren_list = [t \in Threads |-> << >>]
    /\ cons_list = [t \in Threads |-> << >>]
    /\ residual_scenarios = [t \in Threads |-> EmptyDF]
    /\ returned = [t \in Threads |-> EmptyBundle]
    /\ outcome = [t \in Threads |-> IF t = "manual" THEN "running" ELSE "none"]
    /\ phases = [t \in Threads |->
                    IF t = "manual"
                    THEN <<"idle", "fetching-renewables", "fetching-consumption">>
                    ELSE << >>]
    /\ entry = [t \in Threads |-> EmptyBundle]
    /\ now = 1
    /\ disk = << >>
    /\ disk_faulty = FALSE
    /\ running = FALSE
    /\ DeltaIdle
    /\ ClientIdle
    /\ SchedIdle

NextResidual == ComputeResidual("manual")

SpecResidual == InitResidual /\ [][NextResidual]_vars

\* ------------------------------------------------------------------ the aggregation loop alone
\* per-country renewables tables as get_renewable_ensembles returns them for
\* one member: some timestamps, wind only or wind, solar and total; the values
\* constant, or growing with the timestamp, or with a NaN in the first row
AggCols == {{"wind_ens_01"}, {"wind_ens_01", "solar_ens_01", "total_ren_ens_01"}}

AggPatterns == {"flat", "mixed", "holes"}

AggCell(pattern, t, c) ==
    (IF pattern = "flat" THEN 10 ELSE t + 2) + (IF c = "solar_ens_01" THEN 1 ELSE 0)
        + (IF c = "total_ren_ens_01" THEN 20 ELSE 0)

CountryFrames ==
    {Frame(rows, cols,
           [p \in {q \in T \X cols : pattern # "holes" \/ q[1] # 1} |->
               AggCell(pattern, p[1], p[2])]) :
        rows \in (SUBSET T) \ {{}}, cols \in AggCols, pattern \in AggPatterns}

\* ren_list of up to three countries, none of them empty
RenLists == UNION {[1..n -> CountryFrames] : n \in 1..3}

InitAggregate ==
    /\ NoStore
    /\ scenarios = EmptyBundle
    /\ last_update = NoTime
    /\ current_model = "eceps"
    /\ args = [t \in Threads |-> DefaultArgs]
    /\ \E l \in RenLists : ren_list = [t \in Threads |-> IF t = "manual" THEN l ELSE << >>]
    /\ pc = [t \in Threads |-> IF t = "manual" THEN "aggregate_renewables" ELSE "idle"]
    /\ cons_list = [t \in Threads |-> << >>]
    /\ ren_ens = [t \in Threads |-> EmptyDF]
    /\ consumption = [t \in Threads |-> EmptyDF]
    /\ residual_scenarios = [t \in Threads |-> EmptyDF]
    /\ returned = [t \in Threads |-> EmptyBundle]
    /\ outcome = [t \in Threads |-> IF t = "manual" THEN "running" ELSE "none"]
    /\ phases = [t \in Threads |->
                    IF t = "manual" THEN <<"idle", "fetching-renewables">> ELSE << >>]
    /\ entry = [t \in Threads |-> EmptyBundle]
    /\ now = 1
    /\ disk = << >>
    /\ disk_faulty = FALSE
    /\ running = FALSE
    /\ DeltaIdle
    /\ ClientIdle
    /\ SchedIdle

NextAggregate == AggregateRenewables("manual")

SpecAggregate == InitAggregate /\ [][NextAggregate]_vars

\* ------------------------------------------------------------------ compute_residual_load_delta
\* what get_ensemble_by_issue_and_time returns, as far as the delta reads it:
\* no rows, or ens_mean at some timestamps, 0 or 3 or 5 throughout or NaN in
\* the first row
MeanValues == {0, 3, 5}

MeanFrames ==
    {EmptyDF} \cup
    {Frame(rows, {"ens_mean"}, [p \in T \X {"ens_mean"} |-> v]) :
        rows \in (SUBSET T) \ {{}}, v \in MeanValues}
    \cup {Frame(T, {"ens_mean"}, [p \in (T \ {1}) \X {"ens_mean"} |-> 3])}

\* engine.py 268-273, for wind and for solar
InitDelta ==
    /\ NoStore
    /\ EngineInit
    /\ DiskSound
    /\ ClientIdle
    /\ SchedIdle
    /\ old_df \in [Elements -> MeanFrames]
    /\ new_df \in [Elements -> MeanFrames]
    /\ wind_delta = EmptyDF
    /\ solar_delta = EmptyDF
    /\ result = EmptyDF
    /\ delta_pc = "component_deltas"

engineVars == <<metdesk, eq, scenarios, last_update, current_model, pc, args, ren_list,
                ren_ens, cons_list, consumption, residual_scenarios, returned, outcome,
                now, disk, disk_faulty, running, phases, entry>>

\* engine.py 333-338: the two calls of compute_forecast_delta
ComponentDeltas ==
    /\ delta_pc = "component_deltas"
    /\ wind_delta' = ForecastDelta(old_df["wind"], new_df["wind"])
    /\ solar_delta' = ForecastDelta(old_df["solar"], new_df["solar"])
    /\ delta_pc' = "combine"
    /\ UNCHANGED <<engineVars, schedVars, clientVars, old_df, new_df, result>>

\* engine.py 340-373
CombineDeltas ==
    /\ delta_pc = "combine"
    /\ result' = ResidualLoadDelta(wind_delta, solar_delta)
    /\ delta_pc' = "returned"
    /\ UNCHANGED <<engineVars, schedVars, clientVars, old_df, new_df, wind_delta, solar_delta>>

NextDelta == ComponentDeltas \/ CombineDeltas

SpecDelta == InitDelta /\ [][NextDelta]_vars

\* ------------------------------------------------------------------ the client's methods, called one by one
\* the queries of a call that raise: none on a sound store, any on a faulty one
FailChoices(queries) == IF store_faulty THEN SUBSET queries ELSE {{}}

\* _get_latest_issue with its try / except: a failed query is logged and
\* None returned
LatestIssueQuery(model, element, location, failed) ==
    IF failed THEN NoIssue ELSE GetLatestIssue(model, element, location)

\* get_ensemble_forecasts with the except around read_sql (metdesk_db.py 190-206)
EnsembleForecastsCall(model, element, issue, location, fail) ==
    LET iss == IF issue = NoIssue
               THEN LatestIssueQuery(model, element, None, "latest" \in fail)
               ELSE issue
    IN  IF iss = NoIssue THEN EmptyDF
        ELSE IF "rows" \in fail THEN EmptyDF
        ELSE GetEnsembleForecasts(model, element, iss, location)

\* def get_percentile_forecasts(self, model, element, issue=None, location=None),
\* every query answered
GetPercentileForecasts(model, element, issue, location) ==
    LET iss == IF issue = NoIssue THEN GetLatestIssue(model, element, None) ELSE issue
        loc == IF location = None THEN COUNTRY ELSE location
        df  == OrderBy(SelectMembers(loc, model, element, iss,
                           METDESK_PERCENTILE_MEMBERS \cup METDESK_SPECIAL_MEMBERS))
    IN  IF iss = NoIssue THEN EmptyDF
        ELSE IF df = << >> THEN EmptyDF
        ELSE PivotFirst(df)

RECURSIVE SumCells(_, _, _)
\* the sum of the cells of row t of df in the columns cols that are numbers
SumCells(df, t, cols) ==
    IF cols = {} THEN 0
    ELSE LET c == CHOOSE c \in cols : TRUE
         IN  FillZero(df, t, c) + SumCells(df, t, cols \ {c})

\* pivot[ens_cols].mean(axis=1) of row t, NaN values skipped, as the fraction
\* <<sum, count>>
RowMean(df, t) ==
    <<SumCells(df, t, df.cols), Cardinality({c \in df.cols : ~IsNaN(df, t, c)})>>

\* def get_ensemble_by_issue_and_time(self, model, element, issue, valid_start,
\* valid_end, location=None), the query answered: the WHERE clause names
\* location, model, element, issue and the window, and no member
GetEnsembleByIssueAndTime(model, element, issue, valid_start, valid_end, location) ==
    LET loc == IF location = None THEN COUNTRY ELSE location
        all == SelectMembers(loc, model, element, issue,
                             NumericMembers(model) \cup METDESK_PERCENTILE_MEMBERS
                                 \cup METDESK_SPECIAL_MEMBERS)
        df  == OrderBy({r \in all : valid_start <= r.utc_datetime /\ r.utc_datetime <= valid_end})
        pv  == PrefixCols(PivotFirst(df), "ens_")
    IN  IF df = << >> THEN EmptyDF
        ELSE [hasTs |-> TRUE,
              rows  |-> pv.rows,
              cols  |-> pv.cols \cup {"ens_mean"},
              cell  |-> [p \in {q \in DOMAIN pv.cell : q[2] # "ens_mean"}
                                 \cup {<<t, "ens_mean">> : t \in {t \in pv.rows : RowMean(pv, t)[2] > 0}} |->
                            IF p[2] = "ens_mean" THEN RowMean(pv, p[1]) ELSE pv.cell[p]]]

RECURSIVE Descending(_)
\* ORDER BY issue DESC
Descending(S) ==
    IF S = {} THEN << >>
    ELSE LET m == CHOOSE m \in S : \A o \in S : o <= m
         IN  <<m>> \o Descending(S \ {m})

\* def get_available_issues(self, model, element="wind", n_latest=10, location=None),
\* the query answered
GetAvailableIssues(model, element, n_latest, location) ==
    LET loc == IF location = None THEN COUNTRY ELSE location
        all == Descending(IF <<loc, element>> \in DOMAIN metdesk
                          THEN metdesk[<<loc, element>>] ELSE {})
    IN  SubSeq(all, 1, IF Len(all) < n_latest THEN Len(all) ELSE n_latest)

\* the frame of get_eq_consumption's except branch:
\* pd.DataFrame(columns=["utc_datetime", "consumption_mw"])
EmptyConsumption == [hasTs |-> TRUE, rows |-> {}, cols |-> {"consumption_mw"}, cell |-> << >>]

LocationChoices == {None} \cup Locations

\* the valid-time windows asked for
Windows == {<<1, MaxT>>, <<1, 1>>, <<MaxT, MaxT>>}

\* the client keeps nothing between calls: one call per behaviour
Answer(op, a, how, value) ==
    /\ reply.op = "none"
    /\ reply' = [op |-> op, args |-> a, outcome |-> how, value |-> value]
    /\ UNCHANGED <<engineVars, schedVars, deltaVars, special, store_faulty, long_rows, wide>>

NoValue == "no value"

\* metdesk_db.py 49-76
CallGetLatestIssue ==
    \E model \in Models, element \in Elements, location \in LocationChoices,
       fail \in FailChoices({"latest"}) :
        Answer("_get_latest_issue",
               [model |-> model, element |-> element, location |-> location, fail |-> fail],
               "returned",
               LatestIssueQuery(model, element, location, "latest" \in fail))

\* metdesk_db.py 151-233
CallGetEnsembleForecasts ==
    \E model \in Models, element \in Elements, issue \in {NoIssue} \cup Issues,
       location \in LocationChoices, fail \in FailChoices({"latest", "rows"}) :
        Answer("get_ensemble_forecasts",
               [model |-> model, element |-> element, issue |-> issue,
                location |-> location, fail |-> fail],
               "returned",
               EnsembleForecastsCall(model, element, issue, location, fail))

\* metdesk_db.py 82-145: the query runs outside any try
CallGetPercentileForecasts ==
    \E model \in Models, element \in Elements, issue \in {NoIssue} \cup Issues,
       location \in LocationChoices, fail \in FailChoices({"latest", "rows"}) :
        LET iss == IF issue = NoIssue
                   THEN LatestIssueQuery(model, element, None, "latest" \in fail)
                   ELSE issue
            a   == [model |-> model, element |-> element, issue |-> issue,
                    location |-> location, fail |-> fail]
        IN  IF iss = NoIssue
            THEN Answer("get_percentile_forecasts", a, "returned", EmptyDF)
            ELSE IF "rows" \in fail
            THEN Answer("get_percentile_forecasts", a, "raised", NoValue)
            ELSE Answer("get_percentile_forecasts", a, "returned",
                        GetPercentileForecasts(model, element, iss, location))

\* metdesk_db.py 365-437
CallGetEnsembleByIssueAndTime ==
    \E model \in Models, element \in Elements, issue \in Issues, w \in Windows,
       location \in LocationChoices, fail \in FailChoices({"rows"}) :
        Answer("get_ensemble_by_issue_and_time",
               [model |-> model, element |-> element, issue |-> issue,
                valid_start |-> w[1], valid_end |-> w[2], location |-> location,
                fail |-> fail],
               "returned",
               IF "rows" \in fail THEN EmptyDF
               ELSE GetEnsembleByIssueAndTime(model, element, issue, w[1], w[2], location))

\* metdesk_db.py 343-363: no try
CallGetAvailableIssues ==
    \E model \in Models, element \in Elements, n_latest \in {1, 10},
       location \in LocationChoices, fail \in FailChoices({"rows"}) :
        LET a == [model |-> model, element |-> element, n_latest |-> n_latest,
                  location |-> location, fail |-> fail]
        IN  IF "rows" \in fail
            THEN Answer("get_available_issues", a, "raised", NoValue)
            ELSE Answer("get_available_issues", a, "returned",
                        GetAvailableIssues(model, element, n_latest, location))

\* metdesk_db.py 443-484
CallGetEqConsumption ==
    \E location \in {None, "fr", "de"}, fail \in FailChoices({"rows"}) :
        Answer("get_eq_consumption",
               [issue |-> NoIssue, location |-> location, fail |-> fail],
               "returned",
               IF "rows" \in fail THEN EmptyConsumption
               ELSE GetEqConsumption(NoIssue, location))

\* the stores the client is called on: FR wind with no issue, the first or
\* every issue, DE wind with none or every issue, FR solar with every issue;
\* no label besides the numeric members, or mean, or 10% and mean; a store
\* that answers every query, or one whose queries may raise
ClientInit ==
    /\ \E fw \in {{}, {1}, Issues}, dw \in {{}, Issues} :
          metdesk = [le \in Locations \X Elements |->
                        CASE le = <<"FR", "wind">>  -> fw
                          [] le = <<"DE", "wind">>  -> dw
                          [] le = <<"FR", "solar">> -> Issues
                          [] OTHER -> {}]
    /\ \E fc \in {{}, T} : eq = [c \in Locations |-> IF c = "FR" THEN fc ELSE {}]
    /\ special \in {{}, {"mean"}, {"10%", "mean"}}
    /\ store_faulty \in BOOLEAN
    /\ reply = NoReply
    /\ long_rows = << >>
    /\ wide = EmptyDF
    /\ EngineInit
    /\ DiskSound
    /\ DeltaIdle
    /\ SchedIdle

NextClient ==
    \/ CallGetLatestIssue
    \/ CallGetEnsembleForecasts
    \/ CallGetPercentileForecasts
    \/ CallGetEnsembleByIssueAndTime
    \/ CallGetAvailableIssues
    \/ CallGetEqConsumption

SpecClient == ClientInit /\ [][NextClient]_vars

\* ------------------------------------------------------------------ the pivot of get_ensemble_forecasts
\* the rows a query may return: a row per (timestamp, member), or several
MaxRows == 3
PivotValues == {1, 4}
LongRow == [utc_datetime : T, member : UNION {NumericMembers(m) : m \in Models},
            value : PivotValues]

\* ORDER BY utc_datetime, member: rows with equal keys come in any order
Ordered(df) == \A k \in 1..(Len(df) - 1) : ~RowBefore(df[k + 1], df[k])

\* metdesk_db.py 189-200: the non-empty frame read_sql returns
InitPivot ==
    /\ NoStore
    /\ EngineInit
    /\ DiskSound
    /\ DeltaIdle
    /\ SchedIdle
    /\ special = {}
    /\ store_faulty = FALSE
    /\ reply = NoReply
    /\ wide = EmptyDF
    /\ long_rows \in UNION {[1..n -> LongRow] : n \in 1..MaxRows}
    /\ Ordered(long_rows)

\* metdesk_db.py 212-228: pivot_table, rename, sort by utc_datetime
PivotLongRows ==
    /\ wide = EmptyDF
    /\ wide' = RenameMembers(PivotFirst(long_rows))
    /\ UNCHANGED <<engineVars, schedVars, deltaVars, special, store_faulty, reply, long_rows>>

NextPivot == PivotLongRows

SpecPivot == InitPivot /\ [][NextPivot]_vars

\* ------------------------------------------------------------------ scheduler.py
REFORECAST_TIMES_UTC == <<"06:00", "12:00", "18:00">>

\* setup_schedule: a daily job per reforecast time and the hourly job
JobsPerSetup == Len(REFORECAST_TIMES_UTC) + 1

\* a counter that stops counting at MaxRuns
Bump(n) == IF n < MaxRuns THEN n + 1 ELSE n

\* the engine and the store play no part in the scheduler's own steps
SchedFrame ==
    UNCHANGED <<clientVars, deltaVars, disk_faulty, metdesk, eq, scenarios, last_update,
                current_model, pc, args, ren_list, ren_ens, cons_list, consumption,
                residual_scenarios, returned, outcome, now, disk, phases, entry>>

AfterRunUpdate_Propagates(raised) == IF raised > 0 THEN "ended" ELSE "sleep"

\* where _loop continues after run_pending ran jobs of which `raised` had a
\* callback that raised: _run_update catches Exception, so at time.sleep(30)
AfterRunUpdate(raised) == "sleep"

\* def _run_update(self), called `due` times by caller r, the callback
\* raising in `raised` of them: a failure is logged, a success sets last_run
RunUpdates(r, due, raised) ==
    /\ failed_runs' = [failed_runs EXCEPT ![r] = IF raised > 0 THEN Bump(@) ELSE @]
    /\ last_run' = IF due > raised THEN Bump(last_run) ELSE last_run

\* def start(self)
StartCall ==
    IF running
    THEN UNCHANGED <<running, jobs, loops>>
    ELSE /\ jobs' = jobs + JobsPerSetup
         /\ running' = TRUE
         /\ LET l == CHOOSE l \in LoopIds :
                         loops[l] = "unborn" /\ \A k \in 1..(l - 1) : loops[k] # "unborn"
            IN  loops' = [loops EXCEPT ![l] = "check"]

\* def stop(self)
StopCall ==
    /\ running' = FALSE
    /\ jobs' = 0
    /\ UNCHANGED loops

\* dashboard.py 121-125: the toggle is on and the session flag is not set
ToggleOn ==
    /\ ~toggled
    /\ \E l \in LoopIds : loops[l] = "unborn"
    /\ StartCall
    /\ toggled' = TRUE
    /\ UNCHANGED <<last_run, failed_runs>>
    /\ SchedFrame

\* dashboard.py 126-129: the toggle is off and the session flag is set
ToggleOff ==
    /\ toggled
    /\ StopCall
    /\ toggled' = FALSE
    /\ UNCHANGED <<last_run, failed_runs>>
    /\ SchedFrame

\* scheduler.py 47: while self._running
LoopCheck(l) ==
    /\ loops[l] = "check"
    /\ loops' = [loops EXCEPT ![l] = IF running THEN "run_pending" ELSE "ended"]
    /\ UNCHANGED <<running, jobs, toggled, last_run, failed_runs>>
    /\ SchedFrame

\* scheduler.py 48: schedule.run_pending() runs the jobs that are due, each
\* calling _run_update, whose callback returns or raises
LoopRunPending(l) ==
    /\ loops[l] = "run_pending"
    /\ \E due \in 0..jobs : \E raised \in 0..due :
          /\ RunUpdates(l, due, raised)
          /\ loops' = [loops EXCEPT ![l] = AfterRunUpdate(raised)]
    /\ UNCHANGED <<running, jobs, toggled>>
    /\ SchedFrame

\* scheduler.py 49: time.sleep(30) is over
LoopWake(l) ==
    /\ loops[l] = "sleep"
    /\ loops' = [loops EXCEPT ![l] = "check"]
    /\ UNCHANGED <<running, jobs, toggled, last_run, failed_runs>>
    /\ SchedFrame

\* def trigger_manual_update(self)
TriggerManualUpdate ==
    /\ \E raised \in 0..1 : RunUpdates(0, 1, raised)
    /\ UNCHANGED <<running, jobs, toggled, loops>>
    /\ SchedFrame

InitScheduler ==
    /\ NoStore
    /\ EngineInit
    /\ DiskSound
    /\ DeltaIdle
    /\ ClientIdle
    /\ SchedIdle

NextScheduler ==
    \/ ToggleOn
    \/ ToggleOff
    \/ TriggerManualUpdate
    \/ \E l \in LoopIds : LoopCheck(l) \/ LoopRunPending(l) \/ LoopWake(l)

SpecScheduler == InitScheduler /\ [][NextScheduler]_vars

\* ------------------------------------------------------------------ claims on update
\* every requested country of caller t's call yields an empty renewables fetch
AllRenewablesEmpty(t) ==
    \A k \in DOMAIN Countries(t) :
        GetRenewableEnsembles(args[t].model, args[t].issue, Upper(Countries(t)[k])).rows = {}

\* every requested country of caller t's call yields an empty consumption fetch
AllConsumptionEmpty(t) ==
    \A k \in DOMAIN Countries(t) :
        GetEqConsumption(args[t].issue, Lower(Countries(t)[k])).rows = {}

\* C1: an update call whose renewables fetches are all empty, or whose
\* consumption fetches are all empty, returns the empty bundle, does not
\* raise, and the engine's bundle is the one it was when the call began,
\* during the call and after it.
C1_EmptySourcesKeepBundle ==
    \A t \in Threads :
        (outcome[t] # "none" /\ (AllRenewablesEmpty(t) \/ AllConsumptionEmpty(t)))
            => /\ outcome[t] # "raised"
               /\ scenarios = entry[t]
               /\ outcome[t] = "returned" => returned[t] = EmptyBundle

\* C1 witness: with a bundle already published, a call that found renewables
\* but no consumption has returned
C1_Witness ==
    \E t \in Threads :
        /\ outcome[t] = "returned"
        /\ AllConsumptionEmpty(t)
        /\ ~AllRenewablesEmpty(t)
        /\ entry[t] # EmptyBundle
        /\ returned[t] = EmptyBundle
        /\ scenarios = entry[t]

\* the aggregated consumption and renewables of caller t's call are both
\* non-empty and share no timestamp
NoOverlap(t) ==
    /\ consumption[t].rows # {}
    /\ ren_ens[t].rows # {}
    /\ consumption[t].rows \cap ren_ens[t].rows = {}

\* C2: an update call whose aggregated consumption and renewables are
\* non-empty but share no timestamp returns the empty bundle, does not raise,
\* and leaves the engine's bundle as it was when the call began.
C2_NoOverlapKeepsBundle ==
    \A t \in Threads :
        (outcome[t] \in {"returned", "raised"} /\ NoOverlap(t))
            => /\ outcome[t] = "returned"
               /\ returned[t] = EmptyBundle
               /\ scenarios = entry[t]

\* caller t's call asked for one country, one of its wind and solar fetches
\* is empty and the other is not, and its consumption fetch is not empty
PartialSource(t) ==
    LET c == Countries(t)[1]
        wind  == GetEnsembleForecasts(args[t].model, "wind", args[t].issue, Upper(c))
        solar == GetEnsembleForecasts(args[t].model, "solar", args[t].issue, Upper(c))
    IN  /\ Len(Countries(t)) = 1
        /\ (wind.rows = {}) # (solar.rows = {})
        /\ GetEqConsumption(args[t].issue, Lower(c)).rows # {}

\* the non-empty one of the two fetches of a call with a partial source
PresentSource(t) ==
    LET c == Countries(t)[1]
        wind  == GetEnsembleForecasts(args[t].model, "wind", args[t].issue, Upper(c))
        solar == GetEnsembleForecasts(args[t].model, "solar", args[t].issue, Upper(c))
    IN  IF wind.rows # {} THEN wind ELSE solar

\* C3: when one of wind and solar has rows and the other has none, the total
\* renewables of member i at every timestamp of the present source is that
\* source's member-i value, and the residual of member i at every such
\* timestamp that has consumption is consumption minus that value.
C3_PartialSourceAsZero ==
    \A t \in Threads :
        (outcome[t] = "returned" /\ PartialSource(t))
            => /\ returned[t] # EmptyBundle
               /\ \A ts \in PresentSource(t).rows :
                  \A i \in 1..AVAILABLE_MODELS[args[t].model].n_members :
                     LET v   == PresentSource(t).cell[<<ts, "ens_" \o Pad2(i)>>]
                         ren == returned[t].renewables_ens
                         res == returned[t].residual_scenarios
                         con == returned[t].consumption
                     IN  /\ <<ts, "total_ren_ens_" \o Pad2(i)>> \in DOMAIN ren.cell
                         /\ ren.cell[<<ts, "total_ren_ens_" \o Pad2(i)>>] = v
                         /\ ts \in con.rows =>
                               /\ <<ts, "residual_ens_" \o Pad2(i)>> \in DOMAIN res.cell
                               /\ res.cell[<<ts, "residual_ens_" \o Pad2(i)>>]
                                     = con.cell[<<ts, "consumption_mw">>] - v

\* C7: at most one update call is in flight at any time.
C7_OneUpdateInFlight == Cardinality({t \in Threads : pc[t] # "idle"}) <= 1

\* the phases of a call that publishes and returns, in the order of update
UpdatePhases ==
    <<"idle", "fetching-renewables", "fetching-consumption", "computing-residual",
      "computing-statistics", "replacing-bundle", "persisting", "idle(updated)">>

IsPrefix(s, full) == Len(s) <= Len(full) /\ s = SubSeq(full, 1, Len(s))

\* C8 as stated: the snapshot is persisted before the new bundle replaces the
\* current one, so a call that is persisting has not replaced the bundle yet.
C8_PersistBeforeReplace ==
    \A t \in Threads : pc[t] = "save_to_disk" => scenarios = entry[t]

\* C8 amended: the phases of a call in progress are an initial part of idle,
\* fetching-renewables, fetching-consumption, computing-residual,
\* computing-statistics, replacing-bundle, persisting, idle(updated); a call
\* that ended early ended in idle(aborted) out of a fetching phase or in
\* idle(raised) out of persisting; a call that returned a bundle went through
\* all of them, and the bundle was replaced before the snapshot was persisted.
C8_PhaseOrder ==
    \A t \in Threads :
        /\ outcome[t] = "running" => IsPrefix(phases[t], UpdatePhases)
        /\ (outcome[t] = "returned" /\ returned[t] # EmptyBundle)
              => phases[t] = UpdatePhases
        /\ (outcome[t] = "returned" /\ returned[t] = EmptyBundle)
              => /\ phases[t][Len(phases[t])] = "idle(aborted)"
                 /\ IsPrefix(SubSeq(phases[t], 1, Len(phases[t]) - 1),
                             SubSeq(UpdatePhases, 1, 3))
        /\ outcome[t] = "raised"
              => phases[t] = SubSeq(UpdatePhases, 1, 7) \o <<"idle(raised)">>
        /\ pc[t] = "save_to_disk" => scenarios # entry[t]

\* C8 witness: a call has returned the bundle it published
C8_Witness ==
    \E t \in Threads :
        /\ outcome[t] = "returned"
        /\ returned[t] # EmptyBundle
        /\ returned[t] = scenarios
        /\ phases[t] = UpdatePhases

\* ------------------------------------------------------------------ claims on _compute_residual_scenarios
\* the call of _compute_residual_scenarios by the manual caller has returned
Computed == pc["manual"] = "store_results"

\* C4: in every output row t and for every member i of 1..N whose total
\* renewables column exists, residual_ens_i(t) is consumption(t) minus
\* total_ren_ens_i(t) of the same timestamp (NaN where the total is NaN).
C4_ResidualPerMember ==
    Computed =>
        LET con == consumption["manual"]
            ren == ren_ens["manual"]
            res == residual_scenarios["manual"]
        IN  \A t \in res.rows :
            \A i \in 1..AVAILABLE_MODELS[args["manual"].model].n_members :
                LET tot == "total_ren_ens_" \o Pad2(i)
                    col == "residual_ens_" \o Pad2(i)
                IN  tot \in ren.cols =>
                       /\ col \in res.cols
                       /\ IF <<t, tot>> \in DOMAIN ren.cell
                          THEN /\ <<t, col>> \in DOMAIN res.cell
                               /\ res.cell[<<t, col>>]
                                     = con.cell[<<t, "consumption_mw">>] - ren.cell[<<t, tot>>]
                          ELSE <<t, col>> \notin DOMAIN res.cell

\* cell (t, c) of df holds the value v
CellIs(df, t, c, v) == <<t, c>> \in DOMAIN df.cell /\ df.cell[<<t, c>>] = v

\* C4 witness: consumption 100, 110 with members at 10 and 20 has given
\* residuals 90, 100 and 80, 90
C4_Witness ==
    /\ Computed
    /\ residual_scenarios["manual"].rows = {1, 2}
    /\ \A t \in {1, 2} :
          /\ CellIs(consumption["manual"], t, "consumption_mw", 100 + 10 * (t - 1))
          /\ CellIs(ren_ens["manual"], t, "total_ren_ens_01", 10)
          /\ CellIs(ren_ens["manual"], t, "total_ren_ens_02", 20)
          /\ CellIs(residual_scenarios["manual"], t, "residual_ens_01", 90 + 10 * (t - 1))
          /\ CellIs(residual_scenarios["manual"], t, "residual_ens_02", 80 + 10 * (t - 1))

\* C5: the output has at most as many rows as the consumption table and as
\* the renewables table, and every output timestamp occurs in both.
C5_InnerJoinRows ==
    Computed =>
        LET con == consumption["manual"]
            ren == ren_ens["manual"]
            res == residual_scenarios["manual"]
        IN  /\ Cardinality(res.rows) <= Cardinality(con.rows)
            /\ Cardinality(res.rows) <= Cardinality(ren.rows)
            /\ res.rows \subseteq con.rows \cap ren.rows

\* C5 witness: an output with rows, fewer than the consumption table has
C5_Witness ==
    /\ Computed
    /\ residual_scenarios["manual"].rows # {}
    /\ Cardinality(residual_scenarios["manual"].rows)
          < Cardinality(consumption["manual"].rows)
    /\ residual_scenarios["manual"].rows = ren_ens["manual"].rows

\* ------------------------------------------------------------------ claims on the aggregation
\* the orders in which n tables can be listed
Orders(n) == {f \in [1..n -> 1..n] : \A i, j \in 1..n : f[i] = f[j] => i = j}

Reorder(l, f) == [k \in 1..Len(l) |-> l[f[k]]]

Aggregated == pc["manual"] = "fetch_consumption"

\* C6: the sum of the per-country renewables tables is the same table in
\* every order of the countries and in either grouping: the table update
\* builds from A, B, C is also the one built from every reordering of them,
\* and (A + B) + C is A + (B + C), cell by cell, rows and columns included
C6_SumCommutesAssociates ==
    Aggregated =>
        LET l == ren_list["manual"]
        IN  /\ \A f \in Orders(Len(l)) : AggregateRen(Reorder(l, f)) = ren_ens["manual"]
            /\ Len(l) = 3 => AddFill0(l[1], AddFill0(l[2], l[3])) = ren_ens["manual"]

\* C6 witness: three countries whose tables differ in timestamps and in
\* columns have been summed; one cell sums all three, another has one only
C6_Witness ==
    /\ Aggregated
    /\ LET l == ren_list["manual"]
       IN  /\ Len(l) = 3
           /\ l[1].rows # l[2].rows
           /\ l[1].cols # l[3].cols
           /\ l[1] # l[2] /\ l[2] # l[3] /\ l[1] # l[3]
           /\ \E p \in DOMAIN ren_ens["manual"].cell :
                 /\ \A k \in 1..3 : p \in DOMAIN l[k].cell
                 /\ ren_ens["manual"].cell[p] = l[1].cell[p] + l[2].cell[p] + l[3].cell[p]
           /\ \E p \in DOMAIN ren_ens["manual"].cell :
                 Cardinality({k \in 1..3 : p \in DOMAIN l[k].cell}) = 1

\* ------------------------------------------------------------------ claims on compute_residual_load_delta
DeltaReturned == delta_pc = "returned"

\* C9: in every row of the table compute_residual_load_delta returns,
\* residual_delta = -(wind_delta + solar_delta).
C9_ResidualDeltaSign ==
    DeltaReturned =>
        \A t \in result.rows :
            /\ {<<t, "wind_delta">>, <<t, "solar_delta">>, <<t, "residual_delta">>}
                   \subseteq DOMAIN result.cell
            /\ result.cell[<<t, "residual_delta">>]
                   = 0 - (result.cell[<<t, "wind_delta">>] + result.cell[<<t, "solar_delta">>])

\* C9 witness: a row with wind_delta 3 and solar_delta 2 has residual_delta -5
C9_Witness ==
    /\ DeltaReturned
    /\ \E t \in result.rows :
          /\ CellIs(wind_delta, t, "delta", 3)
          /\ CellIs(solar_delta, t, "delta", 2)
          /\ CellIs(result, t, "wind_delta", 3)
          /\ CellIs(result, t, "solar_delta", 2)
          /\ CellIs(result, t, "residual_delta", 0 - 5)

\* C10: compute_residual_load_delta returns an empty table exactly when the
\* wind delta and the solar delta are both empty; otherwise its timestamps
\* are the union of the two deltas' timestamps, and where only one side has
\* the timestamp the other side's delta is 0.
C10_UnionZeroFilled ==
    DeltaReturned =>
        /\ IsEmpty(result) <=> (IsEmpty(wind_delta) /\ IsEmpty(solar_delta))
        /\ ~IsEmpty(result) =>
              /\ result.rows = wind_delta.rows \cup solar_delta.rows
              /\ \A t \in result.rows \ wind_delta.rows : CellIs(result, t, "wind_delta", 0)
              /\ \A t \in result.rows \ solar_delta.rows : CellIs(result, t, "solar_delta", 0)
              /\ \A t \in wind_delta.rows :
                    ~IsNaN(wind_delta, t, "delta")
                        => CellIs(result, t, "wind_delta", wind_delta.cell[<<t, "delta">>])
              /\ \A t \in solar_delta.rows :
                    ~IsNaN(solar_delta, t, "delta")
                        => CellIs(result, t, "solar_delta", solar_delta.cell[<<t, "delta">>])

\* C10 witness: both deltas have rows, one timestamp is on the wind side
\* only, and the result carries it with solar_delta 0
C10_Witness ==
    /\ DeltaReturned
    /\ ~IsEmpty(wind_delta)
    /\ ~IsEmpty(solar_delta)
    /\ \E t \in wind_delta.rows \ solar_delta.rows :
          /\ t \in result.rows
          /\ CellIs(result, t, "solar_delta", 0)
          /\ \E d \in {3, 5} : CellIs(result, t, "wind_delta", d)
                                  /\ CellIs(result, t, "residual_delta", 0 - d)

\* ------------------------------------------------------------------ claims on compute_forecast_delta
DeltasComputed == delta_pc \in {"combine", "returned"}

\* the delta table of element e
DeltaOf(e) == IF e = "wind" THEN wind_delta ELSE solar_delta

\* C11: in every row of the table compute_forecast_delta returns,
\* delta = new_mean - old_mean and delta_pct = delta / (old_mean + 0.1) * 100,
\* a quotient whose divisor is not 0 (delta_pct is <<n, d>> with d # 0 and
\* n / d = 1000 * delta / (10 * old_mean + 1)).
C11_DeltaAndPct ==
    DeltasComputed =>
        \A e \in Elements : \A t \in DeltaOf(e).rows :
            (~IsNaN(DeltaOf(e), t, "old_mean") /\ ~IsNaN(DeltaOf(e), t, "new_mean")) =>
                LET d    == DeltaOf(e)
                    old  == d.cell[<<t, "old_mean">>]
                    new  == d.cell[<<t, "new_mean">>]
                IN  /\ CellIs(d, t, "delta", new - old)
                    /\ ~IsNaN(d, t, "delta_pct")
                    /\ d.cell[<<t, "delta_pct">>][2] # 0
                    /\ d.cell[<<t, "delta_pct">>][1] * (10 * old + 1)
                           = 1000 * (new - old) * d.cell[<<t, "delta_pct">>][2]

\* C11 witness: a row with old_mean 0 and new_mean 5 has delta 5 and
\* delta_pct 5000
C11_Witness ==
    /\ DeltasComputed
    /\ \E t \in wind_delta.rows :
          /\ CellIs(wind_delta, t, "old_mean", 0)
          /\ CellIs(wind_delta, t, "delta", 5)
          /\ ~IsNaN(wind_delta, t, "delta_pct")
          /\ wind_delta.cell[<<t, "delta_pct">>][1]
                 = 5000 * wind_delta.cell[<<t, "delta_pct">>][2]

\* C12: compute_forecast_delta returns an empty table when the old issue's
\* fetch is empty, when the new issue's fetch is empty, and when the two
\* share no timestamp; otherwise its rows are the timestamps of both fetches.
C12_EmptyOrCommonRows ==
    DeltasComputed =>
        \A e \in Elements :
            IF IsEmpty(old_df[e]) \/ IsEmpty(new_df[e])
                  \/ old_df[e].rows \cap new_df[e].rows = {}
            THEN IsEmpty(DeltaOf(e))
            ELSE /\ ~IsEmpty(DeltaOf(e))
                 /\ DeltaOf(e).rows = old_df[e].rows \cap new_df[e].rows

\* C12 witness: the solar fetches share no timestamp and the solar delta is
\* empty; the wind fetches share one of their timestamps, the wind delta's row
C12_Witness ==
    /\ DeltasComputed
    /\ ~IsEmpty(old_df["solar"]) /\ ~IsEmpty(new_df["solar"])
    /\ IsEmpty(solar_delta)
    /\ old_df["wind"].rows # new_df["wind"].rows
    /\ Cardinality(wind_delta.rows) = 1
    /\ wind_delta.rows = old_df["wind"].rows \cap new_df["wind"].rows

\* ------------------------------------------------------------------ claims on the row statistics
\* the member values of row t of the residual table res that are numbers
MemberValues(res, t) ==
    {res.cell[<<t, c>>] : c \in {c \in res.cols :
        /\ c \in {"residual_ens_" \o Pad2(i) : i \in 1..NMembers}
        /\ ~IsNaN(res, t, c)}}

Least(S) == CHOOSE x \in S : \A y \in S : x <= y

Greatest(S) == CHOOSE x \in S : \A y \in S : y <= x

PCol(p) == "ens_P" \o ToString(p)

\* C13: in every row of a residual table with member columns, the 21
\* percentile columns ens_P0, ens_P5, .., ens_P100 are there and do not
\* decrease from one to the next, ens_P0 is the least and ens_P100 the
\* greatest of the row's member values (statistics are in units of
\* 1 / StatScale); they are NaN only in a row all of whose member values are NaN.
C13_PercentilesMonotone ==
    Computed =>
        LET res == residual_scenarios["manual"]
        IN  (res.cols # {}) =>
              /\ {PCol(p) : p \in Percentiles} \subseteq res.cols
              /\ \A t \in res.rows :
                    IF MemberValues(res, t) = {}
                    THEN \A p \in Percentiles : IsNaN(res, t, PCol(p))
                    ELSE /\ \A p \in Percentiles : ~IsNaN(res, t, PCol(p))
                         /\ \A p, q \in Percentiles :
                               p <= q => res.cell[<<t, PCol(p)>>] <= res.cell[<<t, PCol(q)>>]
                         /\ res.cell[<<t, PCol(0)>>] = StatScale * Least(MemberValues(res, t))
                         /\ res.cell[<<t, PCol(100)>>] = StatScale * Greatest(MemberValues(res, t))

\* C13 witness: a row with two different member values, whose percentiles
\* rise from the smaller at ens_P0 through their middle at ens_P50 to the
\* larger at ens_P100
C13_Witness ==
    /\ Computed
    /\ \E t \in residual_scenarios["manual"].rows :
          LET res == residual_scenarios["manual"]
              vs  == MemberValues(res, t)
          IN  /\ Cardinality(vs) = 2
              /\ ~IsNaN(res, t, PCol(0)) /\ ~IsNaN(res, t, PCol(50)) /\ ~IsNaN(res, t, PCol(100))
              /\ res.cell[<<t, PCol(0)>>] = StatScale * Least(vs)
              /\ 2 * res.cell[<<t, PCol(50)>>] = StatScale * (Least(vs) + Greatest(vs))
              /\ res.cell[<<t, PCol(100)>>] = StatScale * Greatest(vs)
              /\ res.cell[<<t, PCol(0)>>] < res.cell[<<t, PCol(50)>>]

\* C14: in every row of the residual table that has the statistics,
\* ens_min <= ens_mean <= ens_max.
C14_MeanWithinMinMax ==
    Computed =>
        LET res == residual_scenarios["manual"]
        IN  \A t \in res.rows :
              IF MemberValues(res, t) = {}
              THEN IsNaN(res, t, "ens_mean")
              ELSE /\ {<<t, "ens_min">>, <<t, "ens_mean">>, <<t, "ens_max">>}
                         \subseteq DOMAIN res.cell
                   /\ res.cell[<<t, "ens_min">>] <= res.cell[<<t, "ens_mean">>]
                   /\ res.cell[<<t, "ens_mean">>] <= res.cell[<<t, "ens_max">>]
                   /\ res.cell[<<t, "ens_min">>] = StatScale * Least(MemberValues(res, t))
                   /\ res.cell[<<t, "ens_max">>] = StatScale * Greatest(MemberValues(res, t))

\* C14 witness: a row whose mean lies strictly between its minimum and maximum
C14_Witness ==
    /\ Computed
    /\ \E t \in residual_scenarios["manual"].rows :
          LET res == residual_scenarios["manual"]
          IN  /\ {<<t, "ens_min">>, <<t, "ens_mean">>, <<t, "ens_max">>}
                    \subseteq DOMAIN res.cell
              /\ res.cell[<<t, "ens_min">>] < res.cell[<<t, "ens_mean">>]
              /\ res.cell[<<t, "ens_mean">>] < res.cell[<<t, "ens_max">>]

\* ------------------------------------------------------------------ claims on the client's methods
\* the location a call with the arguments a reads
LocationOf(a) == IF a.location = None THEN COUNTRY ELSE a.location

\* C15: called without an issue for location L, get_ensemble_forecasts
\* returns the rows of the greatest issue the store has for that model,
\* element and L (no rows when it has none), whatever L is.
C15_LatestIssuePerLocation ==
    (reply.op = "get_ensemble_forecasts" /\ reply.args.issue = NoIssue /\ reply.args.fail = {}) =>
        LET a      == reply.args
            latest == LatestIssueOf(LocationOf(a), a.model, a.element)
        IN  reply.value = IF latest = NoIssue THEN EmptyDF
                          ELSE GetEnsembleForecasts(a.model, a.element, latest, LocationOf(a))

\* the renewables table an update publishes when every wind and solar row of
\* every country in cs is read at the one issue
RenewablesAt(model, issue, cs) ==
    LET list == NonEmpty([k \in DOMAIN cs |-> GetRenewableEnsembles(model, issue, Upper(cs[k]))])
    IN  IF list = << >> THEN EmptyDF ELSE AggregateRen(list)

\* C16: the issue in the published bundle's metadata is the issue every wind
\* and solar row of its renewables table was read at: the table is the one
\* the store gives for that issue, model and countries.
C16_MetadataIssueIsRowsIssue ==
    scenarios # EmptyBundle =>
        scenarios.renewables_ens
            = RenewablesAt(scenarios.metadata.model, scenarios.metadata.issue,
                           scenarios.metadata.countries)

\* C17: when get_ensemble_forecasts finds no issue or no row, what it returns
\* is a table with no rows that has the timestamp column.
C17_EmptyKeepsTimestampColumn ==
    (reply.op = "get_ensemble_forecasts" /\ reply.value.rows = {}) =>
        /\ reply.outcome = "returned"
        /\ reply.value.hasTs

\* the key of row k of the long frame df
KeyOf(df, k) == <<df[k].utc_datetime, df[k].member>>

C19_MeanOfNumericMembers ==
    (reply.op = "get_ensemble_by_issue_and_time" /\ reply.args.fail = {}) =>
        LET a       == reply.args
            members == GetEnsembleForecasts(a.model, a.element, a.issue, a.location)
            window  == {t \in members.rows : a.valid_start <= t /\ t <= a.valid_end}
        IN  /\ reply.value.rows = window
            /\ \A t \in window :
                  /\ ~IsNaN(reply.value, t, "ens_mean")
                  /\ reply.value.cell[<<t, "ens_mean">>][1] * RowMean(members, t)[2]
                        = RowMean(members, t)[1] * reply.value.cell[<<t, "ens_mean">>][2]

\* C20: no method of the client lets the exception of a failing query reach
\* its caller: every call returns a result (empty or absent when the query
\* failed), none raises.
C20_NoClientCallRaises ==
    reply.op # "none" => reply.outcome = "returned"

\* ------------------------------------------------------------------ claims on the scheduler
\* C21: a callback that raises inside _run_update does not end the loop
\* thread: after run_pending, whatever its jobs did, the thread sleeps, then
\* tests _running again, polls again if it is set, and ends only on finding
\* it unset.
C21_LoopSurvivesFailedUpdates ==
    [][\A l \in LoopIds :
          /\ loops[l] = "run_pending" => loops'[l] \in {"run_pending", "sleep"}
          /\ loops[l] = "sleep" => loops'[l] \in {"sleep", "check"}
          /\ (loops[l] = "check" /\ running) => loops'[l] \in {"check", "run_pending"}
          /\ (loops[l] # "ended" /\ loops'[l] = "ended") => (loops[l] = "check" /\ ~running)
      ]_vars

\* C21 witness: a loop thread whose scheduled updates failed MaxRuns times or
\* more is polling again while the scheduler is running
C21_Witness ==
    \E l \in LoopIds :
        /\ failed_runs[l] = MaxRuns
        /\ running
        /\ loops[l] = "run_pending"

\* C27: whatever the sequence of start() and stop() calls, at most one loop
\* thread is polling the schedule (is at run_pending) at any time.
C27_AtMostOneLoopPolling ==
    Cardinality({l \in LoopIds : loops[l] = "run_pending"}) <= 1

\* ------------------------------------------------------------------ claims on the published bundle
\* C22: _save_to_disk is best-effort per table: no update call raises because
\* a table could not be written, and once a call is past it every non-empty
\* table of the bundle has its file, whether or not another write failed.
C22_BestEffortPerTable ==
    \A t \in Threads :
        /\ outcome[t] # "raised"
        /\ (phases[t] # << >> /\ "persisting" \in {phases[t][k] : k \in DOMAIN phases[t]}
               /\ pc[t] \in {"return", "idle"})
              => \A k \in Saved(scenarios) :
                    <<args[t].model, TableOrder[k], now>> \in DOMAIN disk

NoMemberMatched ==
    LET merged == MergeInner(consumption["manual"], ren_ens["manual"])
    IN  /\ ~IsEmpty(consumption["manual"])
        /\ ~IsEmpty(ren_ens["manual"])
        /\ ~IsEmpty(merged)
        /\ \A i \in 1..AVAILABLE_MODELS[args["manual"].model].n_members :
              ("total_ren_ens_" \o Pad2(i)) \notin merged.cols

\* C24: when the join has rows but no total-renewables column of a member
\* 1..N, _compute_residual_scenarios returns, without raising, a table with
\* the join's timestamps and no other column: no residual, mean, std, min,
\* max or percentile column.
C24_OnlyTimestampsWithoutMembers ==
    (Computed /\ NoMemberMatched) =>
        LET res == residual_scenarios["manual"]
        IN  /\ outcome["manual"] # "raised"
            /\ res.hasTs
            /\ res.rows = MergeInner(consumption["manual"], ren_ens["manual"]).rows
            /\ res.cols = {}
            /\ res.cell = << >>

\* C24 witness: such a table with a row has been computed from a renewables
\* table that has wind columns only
C24_Witness ==
    /\ Computed
    /\ NoMemberMatched
    /\ ren_ens["manual"].cols # {}
    /\ residual_scenarios["manual"].rows # {}
    /\ residual_scenarios["manual"].cols = {}

\* ------------------------------------------------------------------ claims on the countries of a bundle
\* C25: in the published renewables table, for every row and every member i
\* of the model that has a wind or a solar column, total_ren_ens_i is
\* wind_ens_i plus solar_ens_i (a missing one counting 0), whichever
\* countries delivered wind, solar or both.
C25_TotalIsWindPlusSolar ==
    scenarios # EmptyBundle =>
        LET ren == scenarios.renewables_ens
        IN  \A t \in ren.rows : \A i \in 1..scenarios.metadata.n_members :
                (("wind_ens_" \o Pad2(i)) \in ren.cols \/ ("solar_ens_" \o Pad2(i)) \in ren.cols)
                    => CellIs(ren, t, "total_ren_ens_" \o Pad2(i),
                              FillZero(ren, t, "wind_ens_" \o Pad2(i))
                                  + FillZero(ren, t, "solar_ens_" \o Pad2(i)))

\* the countries of caller t's list whose renewables, and whose consumption,
\* went into its sums: the fetches of engine.py 77-80 and 102-105 that were
\* not empty
RenewablesFrom(t) ==
    {Countries(t)[k] : k \in {k \in DOMAIN Countries(t) :
        ~IsEmpty(GetRenewableEnsembles(args[t].model, args[t].issue, Upper(Countries(t)[k])))}}

ConsumptionFrom(t) ==
    {Countries(t)[k] : k \in {k \in DOMAIN Countries(t) :
        ~IsEmpty(GetEqConsumption(args[t].issue, Lower(Countries(t)[k])))}}

\* C26: in the bundle a call has just published, the countries summed into
\* the consumption table are the countries summed into the renewables table,
\* and they are the countries the metadata lists.
C26_SameCountriesEverywhere ==
    \A t \in Threads :
        pc[t] = "save_to_disk" =>
            /\ RenewablesFrom(t) = ConsumptionFrom(t)
            /\ {scenarios.metadata.countries[k] : k \in DOMAIN scenarios.metadata.countries}
                   = RenewablesFrom(t)

\* ------------------------------------------------------------------ claims on overlapping and scheduled updates
\* C28: also when update calls overlap, a call that returns a bundle returns
\* the tables it computed itself, with its own model in the metadata.
C28_OwnTablesReturned ==
    \A t \in Threads :
        (outcome[t] = "returned" /\ returned[t] # EmptyBundle) =>
            /\ returned[t].residual_scenarios = residual_scenarios[t]
            /\ returned[t].consumption = consumption[t]
            /\ returned[t].renewables_ens = ren_ens[t]
            /\ returned[t].metadata.model = args[t].model

\* C29: an update call that has aborted, returning the empty bundle, has
\* left the bundle as it was when the call began, and with no call in flight
\* current_model is the model in the metadata of a non-empty bundle.
C29_AbortChangesNothing ==
    \A t \in Threads :
        (outcome[t] = "returned" /\ returned[t] = EmptyBundle /\ pc = [u \in Threads |-> "idle"]) =>
            /\ scenarios = entry[t]
            /\ scenarios # EmptyBundle => current_model = scenarios.metadata.model

\* C30: when the scheduler's update call replaces a published bundle, the
\* new bundle is for the same model and the same country list as the bundle
\* it replaces.
C30_TimerKeepsSelection ==
    [][(pc["timer"] = "store_results" /\ pc'["timer"] = "save_to_disk"
            /\ scenarios # EmptyBundle)
          => /\ scenarios'.metadata.model = scenarios.metadata.model
             /\ scenarios'.metadata.countries = scenarios.metadata.countries
      ]_vars

=============================================================================
